---- MODULE Spec2Model ----
(***************************************************************************)
(* Model of the n8n MCP server (src/src/index.ts): the CallTool request    *)
(* dispatcher, its four handlers, the execution status derivation and the  *)
(* translation of upstream failures.                                       *)
(*                                                                         *)
(* An optional JavaScript value is a sequence of length at most one:       *)
(* << >> is undefined, <<v>> is the value v.  A URL is a sequence of       *)
(* tokens.  Every await in a handler is a point where other invocations    *)
(* may run, so a handler is one action up to its first upstream call and   *)
(* one action per upstream response.                                       *)
(***************************************************************************)
EXTENDS Integers, Sequences, FiniteSets

\* ---- bounds of the model ----
NumInvocations == 2
MaxExecutions == 1
MaxWorkflows == 1

\* ---- program constants ----
DefaultLimit == 10
MinLimit == 1
MaxLimit == 100
TimeoutMs == 30000

Invocations == 1..NumInvocations

Undefined == << >>
Some(v) == <<v>>

\* ---- the environment the constructor reads ----
EnvUrls == { <<"http://n8n.local">>, <<"http://n8n.local", "/">> }
EnvKeys == { "key-A", "key-B" }

\* this.n8nUrl.replace(/\/$/, "")
StripTrailingSlash(url) ==
  IF Len(url) > 0 /\ url[Len(url)] = "/" THEN SubSeq(url, 1, Len(url) - 1) ELSE url

\* axios.create({ baseURL, headers, timeout })
CreateAxios(n8nUrl, apiKey) ==
  [ baseURL |-> n8nUrl \o <<"/api/v1">>, apiKey |-> apiKey, timeout |-> TimeoutMs ]

\* ---- caller inputs ----
ToolNames == { "list_workflows", "get_workflow", "get_executions", "trigger_workflow" }
OtherNames == { "delete_workflow" }
WorkflowIdInputs == { Undefined, Some(""), Some("w1") }
LimitInputs == { Undefined, Some(-5), Some(0), Some(1), Some(37), Some(100), Some(500) }
DataInputs == { Undefined, Some("d1") }

ArgumentInputs ==
  { Undefined } \cup
  { Some([ workflow_id |-> w, limit |-> l, data |-> d ]) :
      w \in WorkflowIdInputs, l \in LimitInputs, d \in DataInputs }

Requests == [ name : ToolNames \cup OtherNames, arguments : ArgumentInputs ]

\* the inputs of the concurrent specification
SmallArgumentInputs ==
  { Undefined, Some([ workflow_id |-> Some("w1"), limit |-> Undefined, data |-> Undefined ]) }
SmallRequests == [ name : ToolNames \cup OtherNames, arguments : SmallArgumentInputs ]

\* ---- upstream payloads ----
WorkflowRecords == [ id : { "w1" }, active : BOOLEAN ]

ErrorObjects == { [ message |-> "" ], [ message |-> "boom" ] }

ExecutionRecords ==
  [ id : { "x1" },
    waitTill : { Undefined, Some("t") },
    finished : BOOLEAN,
    stoppedAt : { Undefined, Some("t") },
    error : { Undefined } \cup { Some(e) : e \in ErrorObjects } ]

RECURSIVE SeqsUpTo(_, _)
SeqsUpTo(S, n) ==
  IF n = 0 THEN { << >> }
  ELSE LET shorter == SeqsUpTo(S, n - 1)
       IN shorter \cup { Append(s, x) : s \in { t \in shorter : Len(t) = n - 1 }, x \in S }

TestRecords == [ executionId : { "e1", "e2" } ]

Endpoints == { "workflows", "workflow", "executions", "activate", "test" }

PayloadsOf(endpoint) ==
  CASE endpoint = "workflows"  -> SeqsUpTo(WorkflowRecords, MaxWorkflows)
    [] endpoint = "workflow"   -> WorkflowRecords
    [] endpoint = "executions" -> SeqsUpTo(ExecutionRecords, MaxExecutions)
    [] endpoint = "activate"   -> WorkflowRecords
    [] endpoint = "test"       -> TestRecords

\* ---- upstream responses ----
\* status << >> is a call that got no response (connection failure, timeout);
\* hasBody says whether the response carried a body, data is the body's
\* "data" field (undefined when the body has no such field).
FailureStatuses == { 401, 403, 404, 500 }

FailedResponses ==
  { [ status |-> Undefined, hasBody |-> FALSE, data |-> Undefined ] } \cup
  { [ status |-> Some(s), hasBody |-> b, data |-> Undefined ] :
      s \in FailureStatuses, b \in BOOLEAN }

ResponsesOf(endpoint) ==
  FailedResponses \cup
  { [ status |-> Some(200), hasBody |-> TRUE, data |-> Undefined ] } \cup
  { [ status |-> Some(200), hasBody |-> TRUE, data |-> Some(p) ] : p \in PayloadsOf(endpoint) }

SmallPayloadsOf(endpoint) ==
  CASE endpoint = "workflows"  -> { << >> }
    [] endpoint = "workflow"   -> WorkflowRecords
    [] endpoint = "executions" -> { << >> }
    [] endpoint = "activate"   -> { [ id |-> "w1", active |-> TRUE ] }
    [] endpoint = "test"       -> TestRecords

SmallResponsesOf(endpoint) ==
  { [ status |-> Undefined, hasBody |-> FALSE, data |-> Undefined ],
    [ status |-> Some(404), hasBody |-> TRUE, data |-> Undefined ] } \cup
  { [ status |-> Some(200), hasBody |-> TRUE, data |-> Some(p) ] : p \in SmallPayloadsOf(endpoint) }

\* axios resolves on a 2xx status and rejects otherwise
Resolved(resp) == resp.status # Undefined /\ resp.status[1] >= 200 /\ resp.status[1] < 300

VARIABLES
  n8nUrl,         \* this.n8nUrl
  apiKey,         \* this.apiKey
  axiosInstance,  \* this.axiosInstance
  pc,             \* per invocation: "idle", "awaiting" or "done"
  request,        \* per invocation: the request params it was called with
  calls,          \* per invocation: the upstream calls it has issued, in order
  responses,      \* per invocation: the upstream responses it has received, in order
  outcome         \* per invocation: what the handler returned or threw

vars == << n8nUrl, apiKey, axiosInstance, pc, request, calls, responses, outcome >>
shared == << n8nUrl, apiKey, axiosInstance >>

NoRequest == [ name |-> "", arguments |-> Undefined ]
Pending == [ type |-> "pending" ]

\* ---- errors ----
\* what axios rejects with for a response that did not resolve
AxiosErrorOf(resp) == [ class |-> "AxiosError", status |-> resp.status, hasData |-> resp.hasBody ]

\* reading a property of undefined
TypeError == [ class |-> "TypeError" ]

McpError(code, prefix, context, message, hint) ==
  [ class |-> "McpError", code |-> code, prefix |-> prefix, context |-> context,
    message |-> message, hint |-> hint ]

Context(text, workflowId) == [ text |-> text, workflowId |-> workflowId ]

\* handleAxiosError without the 403 in its first test
handleAxiosError_only401(error, context) ==
  IF error.class = "AxiosError"
  THEN LET status == error.status
           message == IF error.hasData THEN "JSON.stringify(response.data)" ELSE "error.message"
       IN  IF status = Some(401)
           THEN McpError("InvalidRequest", "Authentication failed", Undefined, message, TRUE)
           ELSE IF status = Some(404)
           THEN McpError("InvalidRequest", "Resource not found", Undefined, message, FALSE)
           ELSE McpError("InternalError", "context", Some(context), message, FALSE)
  ELSE McpError("InternalError", "context", Some(context), "error.message", FALSE)

handleAxiosError(error, context) ==
  IF error.class = "AxiosError"
  THEN LET status == error.status
           message == IF error.hasData THEN "JSON.stringify(response.data)" ELSE "error.message"
       IN  IF status = Some(401) \/ status = Some(403)
           THEN McpError("InvalidRequest", "Authentication failed", Undefined, message, TRUE)
           ELSE IF status = Some(404)
           THEN McpError("InvalidRequest", "Resource not found", Undefined, message, FALSE)
           ELSE McpError("InternalError", "context", Some(context), message, FALSE)
  ELSE McpError("InternalError", "context", Some(context), "error.message", FALSE)

handleError(error) ==
  [ type |-> "result", isError |-> TRUE,
    payload |-> [ success |-> FALSE, error |-> "error.message" ] ]

\* a catch that turns every error into a tool result
OuterCatch_catchAll(error) == handleError(error)

\* the catch of the CallTool handler: an McpError is thrown on, anything else
\* becomes a tool result
OuterCatch(error) ==
  IF error.class = "McpError"
  THEN [ type |-> "protocol_error", error |-> error ]
  ELSE handleError(error)

Result(payload) == [ type |-> "result", isError |-> FALSE, payload |-> payload ]

\* ---- upstream calls ----
Call(method, endpoint, workflowId, params, body) ==
  [ method |-> method, endpoint |-> endpoint, workflowId |-> workflowId,
    params |-> params, body |-> body,
    baseURL |-> axiosInstance.baseURL, apiKey |-> axiosInstance.apiKey,
    timeout |-> axiosInstance.timeout ]

Max(a, b) == IF a >= b THEN a ELSE b
Min(a, b) == IF a <= b THEN a ELSE b

\* Math.min(Math.max(1, limit || 10), 100) with the parameter default limit = 10
ValidLimit(limitArg) ==
  LET limit  == IF limitArg = Undefined THEN DefaultLimit ELSE limitArg[1]
      orTen  == IF limit = 0 THEN DefaultLimit ELSE limit
  IN  Min(Max(MinLimit, orTen), MaxLimit)

\* determineExecutionStatus with its first two tests exchanged
determineExecutionStatus_finishedFirst(execution) ==
  IF ~execution.finished THEN "running"
  ELSE IF execution.waitTill # Undefined THEN "waiting"
  ELSE IF execution.error # Undefined THEN "error"
  ELSE IF execution.finished /\ execution.stoppedAt # Undefined THEN "success"
  ELSE "error"

\* determineExecutionStatus without its test of the error object
determineExecutionStatus_noErrorTest(execution) ==
  IF execution.waitTill # Undefined THEN "waiting"
  ELSE IF ~execution.finished THEN "running"
  ELSE IF execution.finished /\ execution.stoppedAt # Undefined THEN "success"
  ELSE "error"

determineExecutionStatus(execution) ==
  IF execution.waitTill # Undefined THEN "waiting"
  ELSE IF ~execution.finished THEN "running"
  ELSE IF execution.error # Undefined THEN "error"
  ELSE IF execution.finished /\ execution.stoppedAt # Undefined THEN "success"
  ELSE "error"

Null == << >>

\* execution.data?.resultData?.error?.message || null
ErrorMessageOf(execution) ==
  IF execution.error = Undefined THEN Null
  ELSE IF execution.error[1].message = "" THEN Null
  ELSE Some(execution.error[1].message)

ProjectExecution(execution) ==
  [ id |-> execution.id, finished |-> execution.finished, stoppedAt |-> execution.stoppedAt,
    status |-> determineExecutionStatus(execution), error |-> ErrorMessageOf(execution) ]

MapSeq(F(_), s) == [ k \in 1..Len(s) |-> F(s[k]) ]

\* args?.workflow_id === undefined
MissingWorkflowId_undefinedOnly(arguments) ==
  \/ arguments = Undefined
  \/ arguments[1].workflow_id = Undefined

\* !args?.workflow_id
MissingWorkflowId(arguments) ==
  \/ arguments = Undefined
  \/ arguments[1].workflow_id = Undefined
  \/ arguments[1].workflow_id[1] = ""

Init ==
  /\ \E url \in EnvUrls, key \in EnvKeys :
       /\ n8nUrl = StripTrailingSlash(url)
       /\ apiKey = key
       /\ axiosInstance = CreateAxios(StripTrailingSlash(url), key)
  /\ pc = [ i \in Invocations |-> "idle" ]
  /\ request = [ i \in Invocations |-> NoRequest ]
  /\ calls = [ i \in Invocations |-> << >> ]
  /\ responses = [ i \in Invocations |-> << >> ]
  /\ outcome = [ i \in Invocations |-> Pending ]

\* ---- how an invocation moves ----
Throw(i, error) ==
  /\ pc' = [ pc EXCEPT ![i] = "done" ]
  /\ outcome' = [ outcome EXCEPT ![i] = OuterCatch(error) ]
  /\ UNCHANGED calls

Return(i, payload) ==
  /\ pc' = [ pc EXCEPT ![i] = "done" ]
  /\ outcome' = [ outcome EXCEPT ![i] = Result(payload) ]
  /\ UNCHANGED calls

Await(i, call) ==
  /\ pc' = [ pc EXCEPT ![i] = "awaiting" ]
  /\ calls' = [ calls EXCEPT ![i] = Append(@, call) ]
  /\ UNCHANGED outcome

\* the first upstream call of each handler
FirstCall(name, arguments) ==
  LET workflowId == arguments[1].workflow_id[1]
  IN  CASE name = "list_workflows" -> Call("GET", "workflows", Undefined, Undefined, Undefined)
        [] name = "get_workflow"   -> Call("GET", "workflow", Some(workflowId), Undefined, Undefined)
        [] name = "get_executions" ->
             Call("GET", "executions", Undefined,
                  Some([ workflowId |-> workflowId, limit |-> ValidLimit(arguments[1].limit) ]),
                  Undefined)
        [] name = "trigger_workflow" ->
             Call("POST", "activate", Some(workflowId), Undefined,
                  Some(IF arguments[1].data = Undefined THEN "{}" ELSE arguments[1].data[1]))

\* a CallTool handler that keeps the requested workflow in the shared client
CallTool_writesClient(i, req) ==
  /\ pc[i] = "idle"
  /\ request' = [ request EXCEPT ![i] = req ]
  /\ UNCHANGED << n8nUrl, apiKey, responses >>
  /\ IF req.name \notin ToolNames
     THEN /\ Throw(i, McpError("MethodNotFound", "Unknown tool", Undefined, req.name, FALSE))
          /\ UNCHANGED axiosInstance
     ELSE IF req.name # "list_workflows" /\ MissingWorkflowId(req.arguments)
     THEN /\ Throw(i, McpError("InvalidParams", "workflow_id is required", Undefined, "", FALSE))
          /\ UNCHANGED axiosInstance
     ELSE /\ Await(i, FirstCall(req.name, req.arguments))
          /\ axiosInstance' = [ axiosInstance EXCEPT !.baseURL = @ \o << req.name >> ]

\* the CallToolRequestSchema handler, up to the first await of the handler it
\* dispatches to
CallTool(i, req) ==
  /\ pc[i] = "idle"
  /\ request' = [ request EXCEPT ![i] = req ]
  /\ UNCHANGED << shared, responses >>
  /\ IF req.name \notin ToolNames
     THEN Throw(i, McpError("MethodNotFound", "Unknown tool", Undefined, req.name, FALSE))
     ELSE IF req.name # "list_workflows" /\ MissingWorkflowId(req.arguments)
     THEN Throw(i, McpError("InvalidParams", "workflow_id is required", Undefined, "", FALSE))
     ELSE Await(i, FirstCall(req.name, req.arguments))

\* ---- the handlers, from the response to their upstream call ----
WorkflowIdOf(i) == request[i].arguments[1].workflow_id[1]

Receive(i, resp) ==
  /\ pc[i] = "awaiting"
  /\ responses' = [ responses EXCEPT ![i] = Append(@, resp) ]
  /\ UNCHANGED << shared, request >>

ProjectWorkflow(workflow) == [ id |-> workflow.id, active |-> workflow.active ]

listWorkflows(i, resp) ==
  /\ request[i].name = "list_workflows"
  /\ Receive(i, resp)
  /\ LET context == Context("Failed to list workflows", Undefined)
     IN  IF ~Resolved(resp) THEN Throw(i, handleAxiosError(AxiosErrorOf(resp), context))
         ELSE IF resp.data = Undefined THEN Throw(i, handleAxiosError(TypeError, context))
         ELSE LET workflows == MapSeq(ProjectWorkflow, resp.data[1])
              IN  Return(i, [ success |-> TRUE, count |-> Len(workflows), workflows |-> workflows ])

\* getWorkflow trying its call a second time when the first one fails
getWorkflow_retry(i, resp) ==
  /\ request[i].name = "get_workflow"
  /\ Receive(i, resp)
  /\ LET context == Context("Failed to get workflow", Some(WorkflowIdOf(i)))
     IN  IF ~Resolved(resp)
         THEN IF responses[i] = << >>
              THEN Await(i, Call("GET", "workflow", Some(WorkflowIdOf(i)), Undefined, Undefined))
              ELSE Throw(i, handleAxiosError(AxiosErrorOf(resp), context))
         ELSE IF resp.data = Undefined THEN Throw(i, handleAxiosError(TypeError, context))
         ELSE Return(i, [ success |-> TRUE, workflow |-> ProjectWorkflow(resp.data[1]) ])

getWorkflow(i, resp) ==
  /\ request[i].name = "get_workflow"
  /\ Receive(i, resp)
  /\ LET context == Context("Failed to get workflow", Some(WorkflowIdOf(i)))
     IN  IF ~Resolved(resp) THEN Throw(i, handleAxiosError(AxiosErrorOf(resp), context))
         ELSE IF resp.data = Undefined THEN Throw(i, handleAxiosError(TypeError, context))
         ELSE Return(i, [ success |-> TRUE, workflow |-> ProjectWorkflow(resp.data[1]) ])

getExecutions(i, resp) ==
  /\ request[i].name = "get_executions"
  /\ Receive(i, resp)
  /\ LET context == Context("Failed to get executions for workflow", Some(WorkflowIdOf(i)))
     IN  IF ~Resolved(resp) THEN Throw(i, handleAxiosError(AxiosErrorOf(resp), context))
         ELSE IF resp.data = Undefined THEN Throw(i, handleAxiosError(TypeError, context))
         ELSE LET executions == MapSeq(ProjectExecution, resp.data[1])
              IN  Return(i, [ success |-> TRUE, workflowId |-> WorkflowIdOf(i),
                              count |-> Len(executions), executions |-> executions ])

\* triggerWorkflow running the test call for an active workflow only
triggerWorkflow_activeOnly(i, resp) ==
  /\ request[i].name = "trigger_workflow"
  /\ Receive(i, resp)
  /\ LET context == Context("Failed to trigger workflow", Some(WorkflowIdOf(i)))
         workflowId == WorkflowIdOf(i)
         data == request[i].arguments[1].data
         k == Len(responses[i]) + 1
     IN  IF ~Resolved(resp) THEN Throw(i, handleAxiosError(AxiosErrorOf(resp), context))
         ELSE IF k = 1
         THEN Await(i, Call("GET", "workflow", Some(workflowId), Undefined, Undefined))
         ELSE IF k = 2
         THEN IF resp.data = Undefined THEN Throw(i, handleAxiosError(TypeError, context))
              ELSE IF resp.data[1].active
              THEN Await(i, Call("POST", "test", Some(workflowId), Undefined,
                                 Some([ workflowData |-> resp.data[1], runData |-> data ])))
              ELSE Return(i, [ success |-> TRUE, message |-> "Workflow triggered successfully",
                               workflowId |-> workflowId, executionId |-> Undefined,
                               workflowActive |-> FALSE ])
         ELSE IF resp.data = Undefined THEN Throw(i, handleAxiosError(TypeError, context))
              ELSE Return(i, [ success |-> TRUE, message |-> "Workflow triggered successfully",
                               workflowId |-> workflowId,
                               executionId |-> resp.data[1].executionId,
                               workflowActive |-> responses[i][2].data[1].active ])

\* triggerWorkflow going on to the get call when the activate call fails
triggerWorkflow_bestEffort(i, resp) ==
  /\ request[i].name = "trigger_workflow"
  /\ Receive(i, resp)
  /\ LET context == Context("Failed to trigger workflow", Some(WorkflowIdOf(i)))
         workflowId == WorkflowIdOf(i)
         data == request[i].arguments[1].data
         k == Len(responses[i]) + 1
     IN  IF k = 1
         THEN Await(i, Call("GET", "workflow", Some(workflowId), Undefined, Undefined))
         ELSE IF ~Resolved(resp) THEN Throw(i, handleAxiosError(AxiosErrorOf(resp), context))
         ELSE IF k = 2
         THEN IF resp.data = Undefined THEN Throw(i, handleAxiosError(TypeError, context))
              ELSE Await(i, Call("POST", "test", Some(workflowId), Undefined,
                                 Some([ workflowData |-> resp.data[1], runData |-> data ])))
         ELSE IF resp.data = Undefined THEN Throw(i, handleAxiosError(TypeError, context))
              ELSE Return(i, [ success |-> TRUE, message |-> "Workflow triggered successfully",
                               workflowId |-> workflowId,
                               executionId |-> resp.data[1].executionId,
                               workflowActive |-> responses[i][2].data[1].active ])

\* triggerWorkflow after its k-th response: k = 1 activate, 2 get, 3 test
triggerWorkflow(i, resp) ==
  /\ request[i].name = "trigger_workflow"
  /\ Receive(i, resp)
  /\ LET context == Context("Failed to trigger workflow", Some(WorkflowIdOf(i)))
         workflowId == WorkflowIdOf(i)
         data == request[i].arguments[1].data
         k == Len(responses[i]) + 1
     IN  IF ~Resolved(resp) THEN Throw(i, handleAxiosError(AxiosErrorOf(resp), context))
         ELSE IF k = 1
         THEN Await(i, Call("GET", "workflow", Some(workflowId), Undefined, Undefined))
         ELSE IF k = 2
         THEN IF resp.data = Undefined THEN Throw(i, handleAxiosError(TypeError, context))
              ELSE Await(i, Call("POST", "test", Some(workflowId), Undefined,
                                 Some([ workflowData |-> resp.data[1], runData |-> data ])))
         ELSE IF resp.data = Undefined THEN Throw(i, handleAxiosError(TypeError, context))
              ELSE Return(i, [ success |-> TRUE, message |-> "Workflow triggered successfully",
                               workflowId |-> workflowId,
                               executionId |-> resp.data[1].executionId,
                               workflowActive |-> responses[i][2].data[1].active ])

\* the responses upstream may give to the call an invocation is waiting on
Outstanding(i) == calls[i][Len(calls[i])].endpoint
Upstream(i) == IF pc[i] = "awaiting" THEN ResponsesOf(Outstanding(i)) ELSE {}
SmallUpstream(i) == IF pc[i] = "awaiting" THEN SmallResponsesOf(Outstanding(i)) ELSE {}

Next ==
  \/ \E req \in Requests : CallTool(1, req)
  \/ \E resp \in Upstream(1) : listWorkflows(1, resp)
  \/ \E resp \in Upstream(1) : getWorkflow(1, resp)
  \/ \E resp \in Upstream(1) : getExecutions(1, resp)
  \/ \E resp \in Upstream(1) : triggerWorkflow(1, resp)

Spec == Init /\ [][Next]_vars

\* any number of callers at once
NextConcurrent ==
  \/ \E i \in Invocations, req \in SmallRequests : CallTool(i, req)
  \/ \E i \in Invocations : \E resp \in SmallUpstream(i) : listWorkflows(i, resp)
  \/ \E i \in Invocations : \E resp \in SmallUpstream(i) : getWorkflow(i, resp)
  \/ \E i \in Invocations : \E resp \in SmallUpstream(i) : getExecutions(i, resp)
  \/ \E i \in Invocations : \E resp \in SmallUpstream(i) : triggerWorkflow(i, resp)

SpecConcurrent == Init /\ [][NextConcurrent]_vars

\* ---------------------------------------------------------------------------
\* Properties
\* ---------------------------------------------------------------------------
Invoked(i) == pc[i] # "idle"
Done(i) == pc[i] = "done"
EndpointsOf(i) == [ k \in 1..Len(calls[i]) |-> calls[i][k].endpoint ]
LastResponse(i) == responses[i][Len(responses[i])]
ProtocolError(i, code) ==
  /\ outcome[i].type = "protocol_error"
  /\ outcome[i].error.class = "McpError"
  /\ outcome[i].error.code = code

NeedsWorkflowId == { "get_workflow", "get_executions", "trigger_workflow" }

\* the three ways the claim names of lacking a workflow_id
LacksWorkflowId(arguments) ==
  \/ arguments = Undefined
  \/ arguments # Undefined /\ arguments[1].workflow_id = Undefined
  \/ arguments # Undefined /\ arguments[1].workflow_id = Some("")

\* C1: an invocation of get_workflow, get_executions or trigger_workflow whose
\* arguments are absent, or lack workflow_id, or carry the empty string as
\* workflow_id, has failed with the protocol error InvalidParams and has issued
\* no upstream call.
C1_MissingWorkflowIdFails ==
  \A i \in Invocations :
    (Invoked(i) /\ request[i].name \in NeedsWorkflowId /\ LacksWorkflowId(request[i].arguments))
      => /\ Done(i)
         /\ ProtocolError(i, "InvalidParams")
         /\ calls[i] = << >>

C1_Witness ==
  \E i \in Invocations :
    /\ Done(i)
    /\ request[i].name = "get_executions"
    /\ request[i].arguments # Undefined
    /\ request[i].arguments[1].workflow_id = Some("")
    /\ outcome[i].type = "protocol_error"

\* the limit the claim expects: min(max(1, L), 100), L the supplied limit, or
\* 10 when none is supplied
ClaimedLimit(limitArg) ==
  LET L == IF limitArg = Undefined THEN 10 ELSE limitArg[1]
      atLeastOne == IF L < 1 THEN 1 ELSE L
  IN  IF atLeastOne > 100 THEN 100 ELSE atLeastOne

\* C2: the limit parameter of the GET /executions call of a get_executions
\* invocation is min(max(1, L), 100), where L is the supplied limit, or 10 when
\* no limit is supplied; so a limit of 0 sends 1.
C2_LimitIsClamped ==
  \A i \in Invocations :
    (request[i].name = "get_executions" /\ calls[i] # << >>)
      => calls[i][1].params[1].limit = ClaimedLimit(request[i].arguments[1].limit)

AllResolved(i) == \A k \in 1..Len(responses[i]) : Resolved(responses[i][k])
AllCarryData(i) == \A k \in 2..Len(responses[i]) : responses[i][k].data # Undefined

TriggerOrder == << "activate", "workflow", "test" >>

TriggerCompleted(i) ==
  /\ EndpointsOf(i) = TriggerOrder
  /\ Len(responses[i]) = 3
  /\ outcome[i].type = "result"
  /\ outcome[i].payload.success
  /\ outcome[i].payload.executionId = responses[i][3].data[1].executionId
  /\ outcome[i].payload.workflowActive = responses[i][2].data[1].active

\* a call is issued only when every earlier call has been answered
OneAtATime(i) ==
  /\ Len(calls[i]) - Len(responses[i]) \in { 0, 1 }
  /\ pc[i] = "awaiting" <=> Len(calls[i]) = Len(responses[i]) + 1

\* C3 as stated: a finished trigger_workflow invocation none of whose upstream
\* calls failed has issued exactly the calls activate, get, test, and returns
\* the executionId of the test response and the active flag of the get response.
C3_AsStated ==
  \A i \in Invocations :
    (Done(i) /\ request[i].name = "trigger_workflow" /\ responses[i] # << >> /\ AllResolved(i))
      => TriggerCompleted(i)

\* C3: a finished trigger_workflow invocation none of whose upstream calls
\* failed, and whose get and test responses carry a data record, has issued
\* exactly the calls activate, get, test in that order, whether the fetched
\* workflow is active or not, each call issued only after the one before it was
\* answered; it returns the executionId of the test response and the active flag
\* of the get response.
C3_TriggerIssuesThreeCalls ==
  \A i \in Invocations :
    request[i].name = "trigger_workflow" =>
      /\ OneAtATime(i)
      /\ (Done(i) /\ responses[i] # << >> /\ AllResolved(i) /\ AllCarryData(i))
           => TriggerCompleted(i)

C3_Witness ==
  \E i \in Invocations :
    /\ Done(i)
    /\ request[i].name = "trigger_workflow"
    /\ Len(responses[i]) = 3
    /\ AllResolved(i)
    /\ AllCarryData(i)
    /\ ~responses[i][2].data[1].active
    /\ outcome[i].type = "result"
    /\ outcome[i].payload.executionId = "e2"

\* the status the claim's precedence gives
ClaimedStatus(hasWaitTill, finished, hasError, hasStoppedAt) ==
  CASE hasWaitTill -> "waiting"
    [] ~hasWaitTill /\ ~finished -> "running"
    [] ~hasWaitTill /\ finished /\ hasError -> "error"
    [] ~hasWaitTill /\ finished /\ ~hasError /\ hasStoppedAt -> "success"
    [] ~hasWaitTill /\ finished /\ ~hasError /\ ~hasStoppedAt -> "error"

ReturnedExecutions(i) ==
  /\ Done(i)
  /\ request[i].name = "get_executions"
  /\ outcome[i].type = "result"

\* C4: the status of every execution that get_executions returns is decided by
\* (waitTill present, finished, error present, stoppedAt present) in this order:
\* waitTill present gives waiting, else not finished gives running, else error
\* present gives error, else stoppedAt present gives success, else error.
C4_StatusPrecedence ==
  \A i \in Invocations :
    ReturnedExecutions(i) =>
      LET upstream == LastResponse(i).data[1]
          returned == outcome[i].payload.executions
      IN  /\ Len(returned) = Len(upstream)
          /\ \A k \in 1..Len(upstream) :
               returned[k].status =
                 ClaimedStatus(upstream[k].waitTill # Undefined, upstream[k].finished,
                               upstream[k].error # Undefined, upstream[k].stoppedAt # Undefined)

C4_Witness ==
  \E i \in Invocations :
    /\ ReturnedExecutions(i)
    /\ Len(LastResponse(i).data[1]) >= 1
    /\ LastResponse(i).data[1][1].finished
    /\ LastResponse(i).data[1][1].waitTill # Undefined
    /\ outcome[i].payload.executions[1].status = "waiting"

UpstreamFailed(i) == responses[i] # << >> /\ ~Resolved(LastResponse(i))

\* the context string each handler passes to the translation
ClaimedContext(i) ==
  CASE request[i].name = "list_workflows" -> Context("Failed to list workflows", Undefined)
    [] request[i].name = "get_workflow" ->
         Context("Failed to get workflow", request[i].arguments[1].workflow_id)
    [] request[i].name = "get_executions" ->
         Context("Failed to get executions for workflow", request[i].arguments[1].workflow_id)
    [] request[i].name = "trigger_workflow" ->
         Context("Failed to trigger workflow", request[i].arguments[1].workflow_id)

\* C5: whenever an upstream call of any operation fails, the invocation ends
\* with a translated protocol error: status 401 or 403 gives the authentication
\* error with the credential hint, 404 the not-found error, and any other status
\* or no response at all the upstream error carrying the handler's context.
C5_FailuresAreTranslated ==
  \A i \in Invocations :
    UpstreamFailed(i) =>
      LET status == LastResponse(i).status
          e == outcome[i].error
      IN  /\ Done(i)
          /\ outcome[i].type = "protocol_error"
          /\ e.class = "McpError"
          /\ IF status \in { Some(401), Some(403) }
             THEN e.prefix = "Authentication failed" /\ e.hint
             ELSE IF status = Some(404)
             THEN e.prefix = "Resource not found" /\ ~e.hint
             ELSE /\ e.code = "InternalError"
                  /\ e.context = Some(ClaimedContext(i))
                  /\ ~e.hint

C5_Witness ==
  \E i \in Invocations :
    /\ Done(i)
    /\ request[i].name = "trigger_workflow"
    /\ Len(responses[i]) = 3
    /\ responses[i][3].status = Some(403)
    /\ outcome[i].type = "protocol_error"
    /\ outcome[i].error.hint

\* a handler failed on its own while reshaping a resolved response
LocalFailure(i) ==
  /\ Done(i)
  /\ responses[i] # << >>
  /\ Resolved(LastResponse(i))
  /\ LastResponse(i).data = Undefined

\* C6: a failure inside a handler that is neither an upstream failure nor a
\* caller-input error ends the invocation with the tool result
\* {success: false, error: <message>}, not with a protocol error.
C6_LocalFailureIsToolResult ==
  \A i \in Invocations :
    LocalFailure(i) =>
      /\ outcome[i].type = "result"
      /\ outcome[i].isError
      /\ ~outcome[i].payload.success

\* C7: when the k-th upstream call of trigger_workflow fails, the invocation has
\* ended with a protocol error, the calls it issued are exactly the first k of
\* activate, get, test (no later call, no undoing call), and no success payload
\* is returned.
C7_TriggerStopsAtFailure ==
  \A i \in Invocations :
    (request[i].name = "trigger_workflow" /\ \E k \in 1..Len(responses[i]) : ~Resolved(responses[i][k]))
      => LET k == Len(responses[i])
         IN  /\ \A j \in 1..(k - 1) : Resolved(responses[i][j])
             /\ Done(i)
             /\ EndpointsOf(i) = SubSeq(TriggerOrder, 1, k)
             /\ outcome[i].type = "protocol_error"

C7_Witness ==
  \E i \in Invocations :
    /\ Done(i)
    /\ request[i].name = "trigger_workflow"
    /\ Len(responses[i]) = 2
    /\ Resolved(responses[i][1])
    /\ ~Resolved(responses[i][2])
    /\ EndpointsOf(i) = << "activate", "workflow" >>

\* C8: an invocation whose name is none of the four tools has failed with the
\* protocol error MethodNotFound, whatever its arguments, and has issued no
\* upstream call.
C8_UnknownToolFails ==
  \A i \in Invocations :
    (Invoked(i) /\ request[i].name \notin
        { "list_workflows", "get_workflow", "get_executions", "trigger_workflow" })
      => /\ Done(i)
         /\ ProtocolError(i, "MethodNotFound")
         /\ calls[i] = << >>

C8_Witness ==
  \E i \in Invocations :
    /\ Done(i)
    /\ request[i].name = "delete_workflow"
    /\ request[i].arguments # Undefined
    /\ request[i].arguments[1].workflow_id = Some("w1")
    /\ outcome[i].type = "protocol_error"

ValidSingleCall(i) ==
  \/ request[i].name = "list_workflows"
  \/ request[i].name \in { "get_workflow", "get_executions" } /\ ~LacksWorkflowId(request[i].arguments)

\* C9: a valid invocation of list_workflows, get_workflow or get_executions has
\* issued exactly one upstream call, also after that call failed or timed out;
\* no invocation issues more than three calls, and none calls the same endpoint
\* twice.
C9_NoRetry ==
  \A i \in Invocations :
    /\ (Invoked(i) /\ ValidSingleCall(i)) => Len(calls[i]) = 1
    /\ Len(calls[i]) <= 3
    /\ \A j, k \in 1..Len(calls[i]) : j # k => calls[i][j].endpoint # calls[i][k].endpoint

C9_Witness ==
  \E i \in Invocations :
    /\ Done(i)
    /\ request[i].name = "get_workflow"
    /\ Len(calls[i]) = 1
    /\ responses[i][1].status = Undefined

\* two invocations given the same request and the same upstream responses are
\* in the same place, have issued the same calls and have the same outcome
Independent ==
  \A i, j \in Invocations :
    (request[i] = request[j] /\ Len(responses[i]) = Len(responses[j]) /\ responses[i] = responses[j])
      => /\ pc[i] = pc[j]
         /\ calls[i] = calls[j]
         /\ outcome[i] = outcome[j]

\* C10: under any interleaving of invocations, the shared state (base URL, API
\* key and the client built from them) is never written after construction,
\* and what an invocation does is decided by its own request and the responses
\* to its own calls.
C10_InvocationsAreIndependent ==
  /\ [][shared' = shared]_vars
  /\ []Independent

C10_Witness ==
  \E i, j \in Invocations :
    /\ i # j
    /\ request[i].name = "trigger_workflow"
    /\ request[j] = request[i]
    /\ pc[i] = "awaiting"
    /\ pc[j] = "awaiting"
    /\ Len(responses[i]) = 2
    /\ responses[j] = responses[i]

\* the upstream records that get_executions can be given, and what it returns for
\* each: a record of some status with an error message, or without one
SomeRecordGives(status, withMessage) ==
  \E e \in ExecutionRecords :
    /\ ProjectExecution(e).status = status
    /\ (ProjectExecution(e).error # Null) <=> withMessage

\* C11: an execution that get_executions returns with status success has a
\* null error; the converses fail: a waiting and a running record can carry an
\* error message, and a record of status error can have a null error.
C11_SuccessHasNoError ==
  /\ \A i \in Invocations :
       ReturnedExecutions(i) =>
         \A k \in 1..Len(outcome[i].payload.executions) :
           outcome[i].payload.executions[k].status = "success"
             => outcome[i].payload.executions[k].error = Null
  /\ SomeRecordGives("waiting", TRUE)
  /\ SomeRecordGives("running", TRUE)
  /\ SomeRecordGives("error", FALSE)

C11_Witness ==
  \E i \in Invocations :
    /\ ReturnedExecutions(i)
    /\ Len(outcome[i].payload.executions) >= 1
    /\ outcome[i].payload.executions[1].status = "success"
    /\ outcome[i].payload.executions[1].error = Null
    /\ LastResponse(i).data[1][1].stoppedAt # Undefined

====
